---- MODULE Spec2Model ----
(***************************************************************************)
(* A model of todo_cli: the TodoManager (src/src/todo/manager.rs), the     *)
(* list command's sort and filter pipeline (src/src/cli/handlers.rs,       *)
(* src/src/todo/filters.rs) and the TodoItem record (src/src/todo/item.rs).*)
(*                                                                         *)
(* Option<T> is modelled as a sequence: None is <<>>, Some(v) is <<v>>.    *)
(* A NaiveDateTime is a number of minutes; its date() is the day number.   *)
(***************************************************************************)
EXTENDS Integers, Sequences, FiniteSets, TLC

VARIABLES
    todos,      \* TodoManager.todos: Vec<TodoItem>
    next_id,    \* TodoManager.next_id
    file,       \* the file at TodoManager.file_path
    alive,      \* TRUE while a TodoManager constructed by new() exists
    now,        \* the system clock read by Local::now()
    op,         \* the operation that acted last
    result,     \* what it returned
    query,      \* the ListQuery of the last list operation
    pre,        \* todos as they were when the last operation started
    shown,      \* the records handed to display_todos by the last list operation
    started,    \* the clock when the last operation started
    samples,    \* the clock readings taken by the last apply_filter, per record
    issued,     \* the ids add_todo has assigned in the calls that returned Ok, in order
    typed,      \* the sort_by and priority tokens given to the last list command
    saved,      \* TRUE when the last operation wrote the file
    given       \* the id given to the last edit, toggle or delete, None for the others

vars == <<todos, next_id, file, alive, now, op, result, query, pre, shown, started,
          samples, issued, typed, saved, given>>

----------------------------------------------------------------------------
(* Bounds of the model *)

\* the longest collection handed to apply_sorting
MaxLen == 3

----------------------------------------------------------------------------
(* Option<T> *)

None == <<>>

Some(v) == <<v>>

IsSome(o) == o # None

Unwrap(o) == o[1]

----------------------------------------------------------------------------
(* Time: NaiveDateTime in minutes, NaiveDate in days *)

MinutesPerDay == 24 * 60

\* NaiveDateTime::date()
Date(t) == t \div MinutesPerDay

----------------------------------------------------------------------------
(* item.rs: Priority, SortBy, TodoItem *)

Priorities == {"Low", "Medium", "High"}

\* A slip in the declaration of Priority: the variants in the order High,
\* Medium, Low.
PriorityRank_highFirst(p) ==
    CASE p = "High" -> 0
      [] p = "Medium" -> 1
      [] p = "Low" -> 2

\* #[derive(PartialOrd, Ord)] on enum Priority: declaration order
PriorityRank(p) ==
    CASE p = "Low" -> 0
      [] p = "Medium" -> 1
      [] p = "High" -> 2

SortKeys == {"Due", "Priority", "DueThenPriority"}

\* TodoItem::new with the clock reading `t`
NewItem(id, title, description, completed, due_date, priority, tags, t) ==
    [id |-> id, title |-> title, description |-> description,
     completed |-> completed, due_date |-> due_date, priority |-> priority,
     tags |-> tags, created_at |-> t, updated_at |-> t]

----------------------------------------------------------------------------
(* Ordering: the result of Ord::cmp *)

CmpInt(a, b) == IF a < b THEN "Less" ELSE IF a > b THEN "Greater" ELSE "Equal"

\* Ordering::then
Then(first, second) == IF first = "Equal" THEN second ELSE first

\* A slip in the missing-value policy: None compares greater than every Some.
CmpOptionNoneLast(a, b) ==
    IF a = None
    THEN (IF b = None THEN "Equal" ELSE "Greater")
    ELSE IF b = None THEN "Less" ELSE CmpInt(Unwrap(a), Unwrap(b))

\* Option<T>::cmp as the handlers call it: None is less than every Some(_)
CmpOption(a, b) ==
    IF a = None
    THEN (IF b = None THEN "Equal" ELSE "Less")
    ELSE IF b = None THEN "Greater" ELSE CmpInt(Unwrap(a), Unwrap(b))

\* Option<NaiveDateTime>::cmp
CmpDue(a, b) == CmpOption(a.due_date, b.due_date)

RankOpt(p) == IF p = None THEN None ELSE Some(PriorityRank(Unwrap(p)))

\* Option<Priority>::cmp
CmpPriority(a, b) == CmpOption(RankOpt(a.priority), RankOpt(b.priority))

----------------------------------------------------------------------------
(* handlers.rs: apply_sorting *)

\* A slip in the DueThenPriority comparators: the .then(..) tie-break is lost.
Comparator_noTieBreak(sort_by, ascending, a, b) ==
    CASE sort_by = "Due" /\ ascending -> CmpDue(a, b)
      [] sort_by = "Due" /\ ~ascending -> CmpDue(b, a)
      [] sort_by = "Priority" /\ ascending -> CmpPriority(a, b)
      [] sort_by = "Priority" /\ ~ascending -> CmpPriority(b, a)
      [] sort_by = "DueThenPriority" /\ ascending -> CmpDue(a, b)
      [] sort_by = "DueThenPriority" /\ ~ascending -> CmpDue(b, a)

\* the comparator closure chosen by match (sort_by, ascending)
Comparator(sort_by, ascending, a, b) ==
    CASE sort_by = "Due" /\ ascending -> CmpDue(a, b)
      [] sort_by = "Due" /\ ~ascending -> CmpDue(b, a)
      [] sort_by = "Priority" /\ ascending -> CmpPriority(a, b)
      [] sort_by = "Priority" /\ ~ascending -> CmpPriority(b, a)
      [] sort_by = "DueThenPriority" /\ ascending ->
            Then(CmpDue(a, b), CmpPriority(a, b))
      [] sort_by = "DueThenPriority" /\ ~ascending ->
            Then(CmpDue(b, a), CmpPriority(b, a))

RECURSIVE InsertSorted_unstable(_, _, _, _)
\* A slip in the sort: an element is placed before the elements it ties with.
InsertSorted_unstable(sorted, x, sort_by, ascending) ==
    IF sorted = <<>>
    THEN <<x>>
    ELSE IF Comparator(sort_by, ascending, x, Head(sorted)) # "Greater"
         THEN <<x>> \o sorted
         ELSE <<Head(sorted)>> \o InsertSorted_unstable(Tail(sorted), x, sort_by, ascending)

RECURSIVE InsertSorted_dedup(_, _, _, _)
\* A slip in the sort: an element that ties with one already placed is dropped.
InsertSorted_dedup(sorted, x, sort_by, ascending) ==
    IF sorted = <<>>
    THEN <<x>>
    ELSE IF Comparator(sort_by, ascending, x, Head(sorted)) = "Less"
         THEN <<x>> \o sorted
         ELSE IF Comparator(sort_by, ascending, x, Head(sorted)) = "Equal"
              THEN sorted
              ELSE <<Head(sorted)>> \o InsertSorted_dedup(Tail(sorted), x, sort_by, ascending)

RECURSIVE InsertSorted(_, _, _, _)
\* one step of the stable sort: x, which came after every element of `sorted`
\* in the input, goes before the first element it is Less than
InsertSorted(sorted, x, sort_by, ascending) ==
    IF sorted = <<>>
    THEN <<x>>
    ELSE IF Comparator(sort_by, ascending, x, Head(sorted)) = "Less"
         THEN <<x>> \o sorted
         ELSE <<Head(sorted)>> \o InsertSorted(Tail(sorted), x, sort_by, ascending)

RECURSIVE SortFrom(_, _, _, _)
SortFrom(sorted, rest, sort_by, ascending) ==
    IF rest = <<>>
    THEN sorted
    ELSE SortFrom(InsertSorted(sorted, Head(rest), sort_by, ascending),
                  Tail(rest), sort_by, ascending)

\* apply_sorting: todos.sort_by(comparator), a stable sort
ApplySorting(s, sort_by, ascending) == SortFrom(<<>>, s, sort_by, ascending)

----------------------------------------------------------------------------
(* filters.rs: ListQuery *)

\* has_any_filters
HasAnyFilters(q) ==
    \/ q.only_complete
    \/ q.only_pending
    \/ IsSome(q.priority)
    \/ q.overdue
    \/ q.due_today
    \/ q.due_tomorrow
    \/ IsSome(q.due_within)

\* A slip in passes_status_filter: the two flags exchanged.
PassesStatusFilter_swapped(q, item) ==
    CASE q.only_complete /\ ~q.only_pending -> ~item.completed
      [] ~q.only_complete /\ q.only_pending -> item.completed
      [] OTHER -> TRUE

\* passes_status_filter
PassesStatusFilter(q, item) ==
    CASE q.only_complete /\ ~q.only_pending -> item.completed
      [] ~q.only_complete /\ q.only_pending -> ~item.completed
      [] OTHER -> TRUE

\* A slip in passes_priority_filter: a record without priority matches any
\* filter.
PassesPriorityFilter_noneMatches(q, item) ==
    IF IsSome(q.priority)
    THEN item.priority = None \/ item.priority = Some(Unwrap(q.priority))
    ELSE TRUE

\* passes_priority_filter
PassesPriorityFilter(q, item) ==
    IF IsSome(q.priority) THEN item.priority = Some(Unwrap(q.priority)) ELSE TRUE

\* A slip in is_due_today: the early return for an unrequested filter is lost.
IsDueToday_unguarded(q, item, t) ==
    IsSome(item.due_date) /\ Date(Unwrap(item.due_date)) = Date(t)

\* is_due_today, with `t` the reading of Local::now() it takes
IsDueToday(q, item, t) ==
    IF ~q.due_today
    THEN FALSE
    ELSE IsSome(item.due_date) /\ Date(Unwrap(item.due_date)) = Date(t)

\* A slip in is_due_tomorrow: "tomorrow" taken as the next 24 hours.
IsDueTomorrow_within24h(q, item, t) ==
    IF ~q.due_tomorrow
    THEN FALSE
    ELSE /\ IsSome(item.due_date)
         /\ Unwrap(item.due_date) > t
         /\ Unwrap(item.due_date) <= t + MinutesPerDay

\* is_due_tomorrow, with `t` the reading of Local::now() it takes
IsDueTomorrow(q, item, t) ==
    IF ~q.due_tomorrow
    THEN FALSE
    ELSE IsSome(item.due_date) /\ Date(Unwrap(item.due_date)) = Date(t) + 1

\* A slip in is_overdue: a due date equal to now counts as overdue.
IsOverdue_orEqual(q, item, t) ==
    IF ~q.overdue
    THEN FALSE
    ELSE IsSome(item.due_date) /\ Unwrap(item.due_date) <= t

\* is_overdue, with `t` the reading of Local::now() it takes
IsOverdue(q, item, t) ==
    IF ~q.overdue
    THEN FALSE
    ELSE IsSome(item.due_date) /\ Unwrap(item.due_date) < t

\* A slip in is_due_within: the last day of the window is left out.
IsDueWithin_exclusiveEnd(q, item, t) ==
    IF IsSome(q.due_within)
    THEN /\ IsSome(item.due_date)
         /\ Date(Unwrap(item.due_date)) >= Date(t)
         /\ Date(Unwrap(item.due_date)) < Date(t) + Unwrap(q.due_within)
    ELSE FALSE

\* is_due_within, with `t` the reading of Local::now() it takes
IsDueWithin(q, item, t) ==
    IF IsSome(q.due_within)
    THEN /\ IsSome(item.due_date)
         /\ Date(Unwrap(item.due_date)) >= Date(t)
         /\ Date(Unwrap(item.due_date)) <= Date(t) + Unwrap(q.due_within)
    ELSE FALSE

\* passes_time_filter; clk holds the four clock readings, in the order the
\* predicates are called
PassesTimeFilter(q, item, clk) ==
    IF ~q.overdue /\ ~q.due_today /\ ~q.due_tomorrow /\ q.due_within = None
    THEN TRUE
    ELSE \/ IsOverdue(q, item, clk[1])
         \/ IsDueToday(q, item, clk[2])
         \/ IsDueTomorrow(q, item, clk[3])
         \/ IsDueWithin(q, item, clk[4])

\* A slip in item_passes_filters: the groups are joined by OR.
ItemPassesFilters_anyGroup(q, item, clk) ==
    IF ~HasAnyFilters(q)
    THEN TRUE
    ELSE \/ PassesStatusFilter(q, item)
         \/ PassesPriorityFilter(q, item)
         \/ PassesTimeFilter(q, item, clk)

\* A slip in item_passes_filters: the early return for a query without
\* filters gives false.
ItemPassesFilters_requiresFilter(q, item, clk) ==
    IF ~HasAnyFilters(q)
    THEN FALSE
    ELSE /\ PassesStatusFilter(q, item)
         /\ PassesPriorityFilter(q, item)
         /\ PassesTimeFilter(q, item, clk)

\* item_passes_filters
ItemPassesFilters(q, item, clk) ==
    IF ~HasAnyFilters(q)
    THEN TRUE
    ELSE /\ PassesStatusFilter(q, item)
         /\ PassesPriorityFilter(q, item)
         /\ PassesTimeFilter(q, item, clk)

RECURSIVE ApplyFilter_twice(_, _, _)
\* A slip in apply_filter: a passing record is collected twice.
ApplyFilter_twice(s, q, readings) ==
    IF s = <<>>
    THEN <<>>
    ELSE (IF ItemPassesFilters(q, Head(s), Head(readings))
          THEN <<Head(s), Head(s)>> ELSE <<>>)
         \o ApplyFilter_twice(Tail(s), q, Tail(readings))

RECURSIVE ApplyFilter(_, _, _)
\* handlers.rs apply_filter: iter().filter(item_passes_filters).cloned().collect();
\* readings[i] holds the clock readings taken while record i is examined
ApplyFilter(s, q, readings) ==
    IF s = <<>>
    THEN <<>>
    ELSE (IF ItemPassesFilters(q, Head(s), Head(readings)) THEN <<Head(s)>> ELSE <<>>)
         \o ApplyFilter(Tail(s), q, Tail(readings))

\* the flag that makes predicate p (1 overdue, 2 today, 3 tomorrow, 4 within)
\* read the clock
ReadsClock(q, p) ==
    CASE p = 1 -> q.overdue
      [] p = 2 -> q.due_today
      [] p = 3 -> q.due_tomorrow
      [] p = 4 -> IsSome(q.due_within)

\* The readings of a clock that never runs backwards, for the evaluations
\* k..last in call order (four per record), the reading before them being
\* prev: a predicate that does not read the clock carries the reading before
\* it.
RECURSIVE ReadingsFrom(_, _, _, _, _)
ReadingsFrom(k, last, q, prev, ticks) ==
    IF k > last
    THEN {<<>>}
    ELSE LET p == ((k - 1) % 4) + 1
             vals == IF ReadsClock(q, p) THEN {v \in ticks : v >= prev} ELSE {prev}
         IN  UNION { { <<v>> \o rest : rest \in ReadingsFrom(k + 1, last, q, v, ticks) } :
                     v \in vals }

\* The readings of a clock that starts at t: one row of four readings per
\* record.
ClockReadings(n, q, t, ticks) ==
    { [i \in 1..n |-> [p \in 1..4 |-> flat[4 * (i - 1) + p]]] :
        flat \in ReadingsFrom(1, 4 * n, q, t, ticks) }

----------------------------------------------------------------------------
(* validation.rs, date.rs, item.rs: the checks of what the user typed.
   A text is its length in bytes once trimmed, and whether there was
   whitespace to trim. A checked value is [ok, val, err]. *)

Text(n, padded) == [len |-> n, padded |-> padded]

Good(v) == [ok |-> TRUE, val |-> v, err |-> "Ok"]

Bad(kind) == [ok |-> FALSE, val |-> None, err |-> kind]

\* validate_text(text, len)
ValidateText(text, max) ==
    IF text.len = 0
    THEN Bad("EmptyTodo")
    ELSE IF text.len > max
         THEN Bad("TodoTooLong")
         ELSE Good(Text(text.len, FALSE))

\* the length validate_text allows a title
MaxTitleLen == 140

\* the length validate_text allows a description
MaxDescriptionLen == 1000

\* validate_id(&id.to_string())
ValidateId(id) == IF id = 0 THEN Bad("InvalidId") ELSE Good(id)

\* str::to_lowercase on the tokens the model types
ToLowercase(s) ==
    CASE s = "HIGH" -> "high"
      [] s = "Low" -> "low"
      [] s = "DUE" -> "due"
      [] OTHER -> s

\* impl FromStr for Priority
PriorityFromStr(s) ==
    CASE ToLowercase(s) = "high" -> Good("High")
      [] ToLowercase(s) = "medium" -> Good("Medium")
      [] ToLowercase(s) = "low" -> Good("Low")
      [] OTHER -> Bad("InvalidPriority")

\* A slip in SortBy::from_str: an unknown token falls back to Due.
SortByFromStr_fallback(s) ==
    CASE ToLowercase(s) = "priority" -> Good("Priority")
      [] ToLowercase(s) = "due+priority" -> Good("DueThenPriority")
      [] OTHER -> Good("Due")

\* impl FromStr for SortBy
SortByFromStr(s) ==
    CASE ToLowercase(s) = "due" -> Good("Due")
      [] ToLowercase(s) = "priority" -> Good("Priority")
      [] ToLowercase(s) = "due+priority" -> Good("DueThenPriority")
      [] OTHER -> Bad("InvalidSortField")

\* TodoManager::parse_priority
ParsePriority(priority_str) ==
    IF priority_str = None
    THEN Good(None)
    ELSE LET p == PriorityFromStr(Unwrap(priority_str))
         IN  IF p.ok THEN Good(Some(p.val)) ELSE Bad("InvalidPriority")

\* what the user can type as a due date: nothing but blanks; a date and time
\* in one of DATE_FORMATS (at: the minute); a date alone (at: the day);
\* "tomorrow"; "yesterday"; a text no parser takes
DueBlank == [kind |-> "blank", at |-> 0]

DueDateTime(t) == [kind |-> "datetime", at |-> t]

DueDateOnly(d) == [kind |-> "date", at |-> d]

DueTomorrow == [kind |-> "tomorrow", at |-> 0]

DueYesterday == [kind |-> "yesterday", at |-> 0]

DueGarbage == [kind |-> "garbage", at |-> 0]

\* parse_due_date(due_str) with `t` the reading of Local::now()
ParseDueDate(due_str, t) ==
    IF due_str = None
    THEN Good(None)
    ELSE LET d == Unwrap(due_str)
         IN  CASE d.kind = "blank" -> Good(None)
               [] d.kind = "datetime" -> Good(Some(d.at))
               [] d.kind = "date" -> Good(Some(d.at * MinutesPerDay))
               [] d.kind = "tomorrow" ->
                    IF (Date(t) + 1) * MinutesPerDay < t
                    THEN Bad("InvalidDate")
                    ELSE Good(Some((Date(t) + 1) * MinutesPerDay))
               [] d.kind = "yesterday" ->
                    IF (Date(t) - 1) * MinutesPerDay < t
                    THEN Bad("InvalidDate")
                    ELSE Good(Some((Date(t) - 1) * MinutesPerDay))
               [] OTHER -> Bad("InvalidDateFormat")

----------------------------------------------------------------------------
(* manager.rs: the JSON file. A JSON value is <<"null">> or <<"value", v>>. *)

JNull == <<"null">>

JValue(v) == <<"value", v>>

\* Serialize for Option<T>
OptionToJson(o) == IF o = None THEN JNull ELSE JValue(Unwrap(o))

\* Deserialize for Option<T>
OptionFromJson(j) == IF j[1] = "null" THEN None ELSE Some(j[2])

\* #[derive(Serialize)] on TodoItem
ItemToJson(item) ==
    [id |-> item.id, title |-> item.title,
     description |-> OptionToJson(item.description),
     completed |-> item.completed,
     due_date |-> OptionToJson(item.due_date),
     priority |-> OptionToJson(item.priority),
     tags |-> OptionToJson(item.tags),
     created_at |-> item.created_at, updated_at |-> item.updated_at]

\* A slip in the derive on TodoItem: tags marked #[serde(skip)], so that a
\* loaded record has none.
ItemFromJson_skipTags(j) ==
    [id |-> j.id, title |-> j.title,
     description |-> OptionFromJson(j.description),
     completed |-> j.completed,
     due_date |-> OptionFromJson(j.due_date),
     priority |-> OptionFromJson(j.priority),
     tags |-> None,
     created_at |-> j.created_at, updated_at |-> j.updated_at]

\* #[derive(Deserialize)] on TodoItem
ItemFromJson(j) ==
    [id |-> j.id, title |-> j.title,
     description |-> OptionFromJson(j.description),
     completed |-> j.completed,
     due_date |-> OptionFromJson(j.due_date),
     priority |-> OptionFromJson(j.priority),
     tags |-> OptionFromJson(j.tags),
     created_at |-> j.created_at, updated_at |-> j.updated_at]

\* serde_json::to_string(&self.todos) written to the file
SavedFile(items) ==
    [kind |-> "json", content |-> [i \in 1..Len(items) |-> ItemToJson(items[i])]]

\* TodoManager::load_todos
LoadTodos(f) ==
    IF f.kind = "missing"
    THEN <<>>
    ELSE IF f.kind = "blank"
         THEN <<>>
         ELSE [i \in 1..Len(f.content) |-> ItemFromJson(f.content[i])]

----------------------------------------------------------------------------
(* manager.rs: ids. The id is a u32; the model keeps its wrap-around at a
   width of IdBits bits. *)

\* the width of the id in the model
IdBits == 3

IdModulus == 2 ^ IdBits

\* u32::MAX at the model's width
MaxId == IdModulus - 1

RECURSIVE MaxOf(_)
\* iter().map(|t| t.id()).max().unwrap_or(0)
MaxOf(s) ==
    IF s = <<>>
    THEN 0
    ELSE IF Head(s).id > MaxOf(Tail(s)) THEN Head(s).id ELSE MaxOf(Tail(s))

\* find_todo_mut: the position of the first record with this id, 0 for none
FindTodo(s, id) ==
    IF \E i \in 1..Len(s) : s[i].id = id
    THEN CHOOSE i \in 1..Len(s) : s[i].id = id /\ \A k \in 1..(i - 1) : s[k].id # id
    ELSE 0

\* A slip in delete_todo: the closure of retain keeps the records to remove.
Retain_inverted(s, id) == SelectSeq(s, LAMBDA t : t.id = id)

\* todos.retain(|t| t.id() != id)
Retain(s, id) == SelectSeq(s, LAMBDA t : t.id # id)

\* TodoItem::touch with the clock reading `t`
Touch(item, t) == [item EXCEPT !.updated_at = t]

----------------------------------------------------------------------------
(* State shared by the specifications *)

\* a title as validate_text returns it: its length in bytes, nothing to trim
Title(n) == [len |-> n, padded |-> FALSE]

\* a ListQuery with the sort key and direction flags given and no filter set
SortQuery(sort_by, asc, desc) ==
    [sort_by |-> sort_by, asc |-> asc, desc |-> desc,
     only_complete |-> FALSE, only_pending |-> FALSE, priority |-> None,
     overdue |-> FALSE, due_today |-> FALSE, due_tomorrow |-> FALSE,
     due_within |-> None]

\* the file at file_path: "missing", "blank" (no text in it) or "json"
NoFile == [kind |-> "missing", content |-> <<>>]

\* TodoResult: Ok(..), or Err with the id that TodoNotFound carries
Ok == [kind |-> "Ok", id |-> 0]

Err(kind) == [kind |-> kind, id |-> 0]

\* Commands::List without --sort-by and --priority
NoTokens == [sort_by |-> None, priority |-> None]

\* the variables an operation on a bare collection leaves alone
Idle ==
    /\ next_id = 1
    /\ file = NoFile
    /\ alive = FALSE
    /\ issued = <<>>
    /\ typed = NoTokens
    /\ saved = FALSE
    /\ given = None

----------------------------------------------------------------------------
(* SpecSort: apply_sorting applied to collections drawn from bounded sets *)

SortDues == {None, Some(MinutesPerDay), Some(2 * MinutesPerDay)}

SortPriorities == {None} \cup {Some(p) : p \in Priorities}

\* a collection of n records with ids in input order, its due dates and
\* priorities given by f
SortInput(n, f) ==
    [i \in 1..n |-> NewItem(i, Title(1), None, FALSE, f[i][1], f[i][2], None, 0)]

\* every collection of at most MaxLen records
InitSort ==
    /\ \E n \in 0..MaxLen :
       \E f \in [1..n -> SortDues \X SortPriorities] : todos = SortInput(n, f)
    /\ Idle
    /\ now = 0
    /\ op = "init"
    /\ result = Ok
    /\ query = SortQuery("Due", FALSE, FALSE)
    /\ pre = <<>>
    /\ shown = <<>>
    /\ started = 0
    /\ samples = <<>>

\* apply_sorting(todos, sort_by, ascending), once on each input collection
SortStep ==
    \E sort_by \in SortKeys, ascending \in BOOLEAN :
        /\ op = "init"
        /\ todos' = ApplySorting(todos, sort_by, ascending)
        /\ pre' = todos
        /\ query' = SortQuery(sort_by, ascending, ~ascending)
        /\ op' = "sort"
        /\ result' = Ok
        /\ UNCHANGED <<next_id, file, alive, now, shown, started, samples, issued,
                       typed, saved, given>>

NextSort == SortStep

SpecSort == InitSort /\ [][NextSort]_vars

\* the index of the record with id `id` in s (ids are distinct in every input of SpecSort)
IndexOf(s, id) == CHOOSE i \in 1..Len(s) : s[i].id = id

\* record a stands before record b in s
Before(s, a, b) == IndexOf(s, a.id) < IndexOf(s, b.id)

Sorted == op = "sort"

Ascending == query.asc

\* C1 as stated: after a sort by Due, a record with a due_date stands before
\* a record without one when ascending, and after it when descending.
C1_NoneLast ==
    (Sorted /\ query.sort_by = "Due") =>
        \A i, j \in 1..Len(todos) :
            (IsSome(todos[i].due_date) /\ todos[j].due_date = None) =>
                (IF Ascending THEN i < j ELSE j < i)

\* C1 amended: after a sort by Due, a record without a due_date stands before
\* every record with one when ascending, and after every such record when
\* descending.
C1_NoneFirst ==
    (Sorted /\ query.sort_by = "Due") =>
        \A i, j \in 1..Len(todos) :
            (IsSome(todos[i].due_date) /\ todos[j].due_date = None) =>
                (IF Ascending THEN j < i ELSE i < j)

\* a sort by Due that moved a record without due_date across one with it
C1_Witness ==
    /\ Sorted /\ query.sort_by = "Due"
    /\ todos # pre
    /\ \E i, j \in 1..Len(pre) :
        /\ IsSome(pre[i].due_date) /\ pre[j].due_date = None
        /\ Before(pre, pre[i], pre[j]) # Before(todos, pre[i], pre[j])

\* C2 as stated: after a sort by Priority, concrete priorities stand in the
\* order Low, Medium, High when ascending (reversed when descending), and a
\* record without priority stands after every record with one when ascending
\* and before every such record when descending.
C2_NoneGreatest ==
    (Sorted /\ query.sort_by = "Priority") =>
        \A i, j \in 1..Len(todos) :
            /\ (/\ IsSome(todos[i].priority) /\ IsSome(todos[j].priority)
                /\ PriorityRank(Unwrap(todos[i].priority))
                     < PriorityRank(Unwrap(todos[j].priority)))
               => (IF Ascending THEN i < j ELSE j < i)
            /\ (IsSome(todos[i].priority) /\ todos[j].priority = None)
               => (IF Ascending THEN i < j ELSE j < i)

\* C2 amended: after a sort by Priority, concrete priorities stand in the
\* order Low, Medium, High when ascending (reversed when descending), and a
\* record without priority is less than every concrete priority: it stands
\* before every record with one when ascending and after them when descending.
C2_NoneLeast ==
    (Sorted /\ query.sort_by = "Priority") =>
        \A i, j \in 1..Len(todos) :
            /\ (/\ todos[i].priority \in {Some("Low")}
                /\ todos[j].priority \in {Some("Medium"), Some("High")})
               => (IF Ascending THEN i < j ELSE j < i)
            /\ (todos[i].priority = Some("Medium") /\ todos[j].priority = Some("High"))
               => (IF Ascending THEN i < j ELSE j < i)
            /\ (IsSome(todos[i].priority) /\ todos[j].priority = None)
               => (IF Ascending THEN j < i ELSE i < j)

\* a sort by Priority of Low, Medium, High and no priority that reordered them
C2_Witness ==
    /\ Sorted /\ query.sort_by = "Priority"
    /\ todos # pre
    /\ {todos[i].priority : i \in 1..Len(todos)} \in
         { {None, Some("Medium"), Some("High")}, {None, Some("Low"), Some("High")},
           {None, Some("Low"), Some("Medium")} }

\* C8: the sort is stable: two records of the input that the comparator of
\* the active key and direction finds Equal keep their relative order.
C8_Stable ==
    Sorted =>
        \A i, j \in 1..Len(pre) :
            (i < j /\ Comparator(query.sort_by, query.asc, pre[i], pre[j]) = "Equal")
                => Before(todos, pre[i], pre[j])

\* a sort that moved a record from between two records that tie
C8_Witness ==
    /\ Sorted
    /\ \E i, k, j \in 1..Len(pre) :
        /\ i < k /\ k < j
        /\ Comparator(query.sort_by, query.asc, pre[i], pre[j]) = "Equal"
        /\ Comparator(query.sort_by, query.asc, pre[k], pre[i]) = "Less"
        /\ Before(todos, pre[k], pre[i])

\* C9: after a sort by DueThenPriority the records are monotonic in due_date
\* in the direction asked, and two records with equal due_date (both None
\* included) stand in the order a sort of the same input by Priority alone,
\* in the same direction, gives them.
C9_TieBreak ==
    (Sorted /\ query.sort_by = "DueThenPriority") =>
        LET byPriority == ApplySorting(pre, "Priority", query.asc)
        IN  /\ \A i, j \in 1..Len(todos) :
                i < j => Comparator("Due", query.asc, todos[i], todos[j]) # "Greater"
            /\ \A i, j \in 1..Len(todos) :
                (i < j /\ todos[i].due_date = todos[j].due_date)
                    => Before(byPriority, todos[i], todos[j])

\* a DueThenPriority sort in which the priority decided the order of two
\* records with equal due_date, against their input order
C9_Witness ==
    /\ Sorted /\ query.sort_by = "DueThenPriority"
    /\ \E i, j \in 1..Len(pre) :
        /\ i < j
        /\ pre[i].due_date = pre[j].due_date
        /\ pre[i].priority # pre[j].priority
        /\ Before(todos, pre[j], pre[i])

\* the number of positions of s holding record r
Count(s, r) == Cardinality({i \in 1..Len(s) : s[i] = r})

\* C10: the collection after apply_sorting is a permutation of the collection
\* before it: the same length, and every record, with all its fields, as often
\* as before.
C10_Permutation ==
    Sorted =>
        /\ Len(todos) = Len(pre)
        /\ \A i \in 1..Len(pre) : Count(todos, pre[i]) = Count(pre, pre[i])

\* a sort of two or more records that changed their order
C10_Witness ==
    /\ Sorted
    /\ Len(pre) >= 2
    /\ todos # pre

----------------------------------------------------------------------------
(* SpecFilter: apply_filter applied once to a collection, a ListQuery and a
   clock drawn from bounded sets *)

\* the longest collection handed to apply_filter
MaxFilterLen == 1

\* 23:59 of day 1 and 00:00 of day 2: the readings Local::now() can give
ClockTicks == {2 * MinutesPerDay - 1, 2 * MinutesPerDay}

\* no due date; 08:00 and 23:59 of day 1; 09:00 of day 2
FilterDues ==
    {None, Some(MinutesPerDay + 8 * 60), Some(2 * MinutesPerDay - 1),
     Some(2 * MinutesPerDay + 9 * 60)}

FilterPriorities == {None, Some("Low"), Some("High")}

\* a collection of n records with ids in input order, their completed flags,
\* due dates and priorities given by f
FilterInput(n, f) ==
    [i \in 1..n |-> NewItem(i, Title(1), None, f[i][1], f[i][2], f[i][3], None, 0)]

FilterQueries ==
    [sort_by : {"Due"}, asc : {FALSE}, desc : {FALSE},
     only_complete : BOOLEAN, only_pending : BOOLEAN,
     priority : {None, Some("High")},
     overdue : BOOLEAN, due_today : BOOLEAN, due_tomorrow : BOOLEAN,
     due_within : {None, Some(0), Some(1)}]

\* every collection of at most MaxFilterLen records
InitFilter ==
    /\ \E n \in 0..MaxFilterLen :
       \E f \in [1..n -> BOOLEAN \X FilterDues \X FilterPriorities] :
           todos = FilterInput(n, f)
    /\ Idle
    /\ now \in ClockTicks
    /\ op = "init"
    /\ result = Ok
    /\ query = SortQuery("Due", FALSE, FALSE)
    /\ pre = <<>>
    /\ shown = <<>>
    /\ started = 0
    /\ samples = <<>>

\* apply_filter(todos, query) while the clock runs
FilterStep ==
    /\ op = "init"
    /\ \E q \in FilterQueries :
       \E r \in ClockReadings(Len(todos), q, now, {t \in ClockTicks : t >= now}) :
        /\ shown' = ApplyFilter(todos, q, r)
        /\ samples' = r
        /\ query' = q
        /\ started' = now
        /\ now' = IF todos = <<>> THEN now ELSE r[Len(todos)][4]
        /\ pre' = todos
        /\ op' = "filter"
        /\ result' = Ok
        /\ UNCHANGED <<todos, next_id, file, alive, issued, typed, saved, given>>

\* apply_filter(shown, query): the same query applied to the output of the
\* first application, while the clock runs on
FilterAgain ==
    /\ op = "filter"
    /\ \E r \in ClockReadings(Len(shown), query, now, {t \in ClockTicks : t >= now}) :
        /\ shown' = ApplyFilter(shown, query, r)
        /\ samples' = samples \o r
        /\ now' = IF shown = <<>> THEN now ELSE r[Len(shown)][4]
        /\ pre' = shown
        /\ op' = "refilter"
        /\ result' = Ok
        /\ UNCHANGED <<todos, next_id, file, alive, issued, query, started, typed, saved, given>>

NextFilter == FilterStep \/ FilterAgain

SpecFilter == InitFilter /\ [][NextFilter]_vars

Filtered == op = "filter"

\* record r is in the sequence s
InSeq(s, r) == \E i \in 1..Len(s) : s[i] = r

\* C5: a record is in the output of apply_filter iff it passes the status
\* group and the priority group and the time group; so a record that passes
\* the priority and time groups and fails the status group is not in it.
C5_AllGroups ==
    Filtered =>
        \A i \in 1..Len(pre) :
            InSeq(shown, pre[i]) <=>
                /\ PassesStatusFilter(query, pre[i])
                /\ PassesPriorityFilter(query, pre[i])
                /\ PassesTimeFilter(query, pre[i], samples[i])

\* a record kept out by the status group alone, with a priority filter and a
\* time predicate set and matching
C5_Witness ==
    /\ Filtered
    /\ IsSome(query.priority) /\ query.due_today
    /\ \E i \in 1..Len(pre) :
        /\ ~PassesStatusFilter(query, pre[i])
        /\ PassesPriorityFilter(query, pre[i])
        /\ PassesTimeFilter(query, pre[i], samples[i])
        /\ ~InSeq(shown, pre[i])

\* predicate p (1 Overdue, 2 DueToday, 3 DueTomorrow, 4 DueWithinDays) is
\* requested by q
Requested(q, p) ==
    CASE p = 1 -> q.overdue
      [] p = 2 -> q.due_today
      [] p = 3 -> q.due_tomorrow
      [] p = 4 -> q.due_within # None

\* the due date `due` satisfies predicate p of q at the instant t
Satisfies(q, p, due, t) ==
    CASE p = 1 -> due < t
      [] p = 2 -> Date(due) = Date(t)
      [] p = 3 -> Date(due) = Date(t) + 1
      [] p = 4 -> Date(t) <= Date(due) /\ Date(due) <= Date(t) + Unwrap(q.due_within)

\* C6: with no time predicate requested every record passes the time group;
\* with one or more requested a record passes it iff it has a due_date that
\* satisfies one of the requested predicates (at the instant that predicate
\* reads the clock), so a record without due_date fails it and a predicate
\* that was not requested admits none.
C6_TimeGroup ==
    Filtered =>
        \A i \in 1..Len(pre) :
            PassesTimeFilter(query, pre[i], samples[i]) <=>
                IF \A p \in 1..4 : ~Requested(query, p)
                THEN TRUE
                ELSE /\ pre[i].due_date # None
                     /\ \E p \in 1..4 :
                            /\ Requested(query, p)
                            /\ Satisfies(query, p, Unwrap(pre[i].due_date), samples[i][p])

\* a record that satisfies a predicate that was not requested and none that
\* was, and is kept out by the time group
C6_Witness ==
    /\ Filtered
    /\ \E i \in 1..Len(pre) :
        /\ pre[i].due_date # None
        /\ ~query.due_today /\ query.due_tomorrow
        /\ Date(Unwrap(pre[i].due_date)) = Date(samples[i][2])
        /\ ~PassesTimeFilter(query, pre[i], samples[i])
        /\ ~InSeq(shown, pre[i])

\* C7: the output of one apply_filter is the filter evaluated with every
\* predicate of every record at one and the same instant of the time the
\* operation ran, however the clock advanced meanwhile.
C7_OneInstant ==
    Filtered =>
        \E t \in {x \in ClockTicks : started <= x /\ x <= now} :
            shown = ApplyFilter(pre, query,
                                [i \in 1..Len(pre) |-> [p \in 1..4 |-> t]])

\* q sets time predicate p (1 Overdue, 2 DueToday, 3 DueTomorrow,
\* 4 DueWithinDays) and no other filter field
OnlyPredicate(q, p) ==
    /\ ~q.only_complete /\ ~q.only_pending
    /\ q.priority = None
    /\ \A k \in 1..4 : Requested(q, k) <=> k = p

\* C11: with only Overdue set, a record is in the output iff it has a
\* due_date whose timestamp is strictly before the clock reading is_overdue
\* takes: a due_date equal to or after that reading does not pass, whatever
\* the calendar date, and completed plays no part.
C11_OverdueStrict ==
    (Filtered /\ OnlyPredicate(query, 1)) =>
        \A i \in 1..Len(pre) :
            InSeq(shown, pre[i]) <=>
                /\ pre[i].due_date # None
                /\ Unwrap(pre[i].due_date) < samples[i][1]

\* a completed record due earlier on the date of now, listed as overdue
C11_Witness ==
    /\ Filtered /\ OnlyPredicate(query, 1)
    /\ \E i \in 1..Len(pre) :
        /\ pre[i].completed
        /\ pre[i].due_date # None
        /\ Date(Unwrap(pre[i].due_date)) = Date(samples[i][1])
        /\ Unwrap(pre[i].due_date) < samples[i][1]
        /\ InSeq(shown, pre[i])

C13_TodayTomorrow ==
    /\ (Filtered /\ OnlyPredicate(query, 2)) =>
            \A i \in 1..Len(pre) :
                InSeq(shown, pre[i]) <=>
                    /\ pre[i].due_date # None
                    /\ Date(Unwrap(pre[i].due_date)) = Date(samples[i][2])
    /\ (Filtered /\ OnlyPredicate(query, 3)) =>
            \A i \in 1..Len(pre) :
                InSeq(shown, pre[i]) <=>
                    /\ pre[i].due_date # None
                    /\ Date(Unwrap(pre[i].due_date)) = Date(samples[i][3]) + 1

\* a record due today in less than 24 hours, left out by DueTomorrow
C13_Witness ==
    /\ Filtered /\ OnlyPredicate(query, 3)
    /\ \E i \in 1..Len(pre) :
        /\ pre[i].due_date # None
        /\ Date(Unwrap(pre[i].due_date)) = Date(samples[i][3])
        /\ Unwrap(pre[i].due_date) > samples[i][3]
        /\ ~InSeq(shown, pre[i])

\* C14: with a priority filter set, a record passes the priority group iff
\* its priority is that very value, so a record without priority never
\* passes it; with none set every record passes the group. (A record is in
\* the output iff it passes this group and the status and time groups.)
C14_PriorityExact ==
    Filtered =>
        \A i \in 1..Len(pre) :
            InSeq(shown, pre[i]) <=>
                /\ PassesStatusFilter(query, pre[i])
                /\ PassesTimeFilter(query, pre[i], samples[i])
                /\ (query.priority # None => pre[i].priority = query.priority)

\* a record without priority that passes the status and time groups, left
\* out by a priority filter
C14_Witness ==
    /\ Filtered
    /\ query.priority # None
    /\ \E i \in 1..Len(pre) :
        /\ pre[i].priority = None
        /\ PassesStatusFilter(query, pre[i])
        /\ PassesTimeFilter(query, pre[i], samples[i])
        /\ ~InSeq(shown, pre[i])

\* C15: with only_complete set and only_pending not, a record passes the
\* status group iff it is completed; with only_pending set and only_complete
\* not, iff it is not completed; with neither set every record passes the
\* group. (A record is in the output iff it passes this group and the
\* priority and time groups.)
C15_StatusGroup ==
    (Filtered /\ ~(query.only_complete /\ query.only_pending)) =>
        \A i \in 1..Len(pre) :
            InSeq(shown, pre[i]) <=>
                /\ PassesPriorityFilter(query, pre[i])
                /\ PassesTimeFilter(query, pre[i], samples[i])
                /\ (query.only_complete => pre[i].completed)
                /\ (query.only_pending => ~pre[i].completed)

\* a completed record that passes the priority and time groups, left out by
\* only_pending
C15_Witness ==
    /\ Filtered
    /\ query.only_pending /\ ~query.only_complete
    /\ \E i \in 1..Len(pre) :
        /\ pre[i].completed
        /\ PassesPriorityFilter(query, pre[i])
        /\ PassesTimeFilter(query, pre[i], samples[i])
        /\ ~InSeq(shown, pre[i])

\* q sets no status flag, no priority filter and no time predicate
NoFilterSet(q) ==
    /\ ~q.only_complete /\ ~q.only_pending
    /\ q.priority = None
    /\ \A p \in 1..4 : ~Requested(q, p)

\* C16: with no filter field set, apply_filter returns every record of its
\* input, in the input's order.
C16_NoFilterIdentity ==
    (Filtered /\ NoFilterSet(query)) => shown = pre

\* a completed record without due date and priority, returned by a query
\* without filters
C16_Witness ==
    /\ Filtered /\ NoFilterSet(query)
    /\ Len(pre) >= 1
    /\ pre[1].completed /\ pre[1].due_date = None /\ pre[1].priority = None
    /\ shown = pre

\* the filter has been applied to its own output
Refiltered == op = "refilter"

\* every clock reading of both applications is the instant the first began
FixedNow == \A i \in 1..Len(samples) : \A p \in 1..4 : samples[i][p] = started

\* C17: for a clock that stands still, apply_filter applied to its own
\* output with the same query returns that output unchanged.
C17_Idempotent ==
    (Refiltered /\ FixedNow) => shown = pre

\* a first output that holds a record, found by a query with a status flag
\* and a time predicate, and filtered again
C17_Witness ==
    /\ Refiltered /\ FixedNow
    /\ query.only_pending /\ ~query.only_complete /\ query.due_today
    /\ Len(pre) >= 1
    /\ shown = pre


\* the most records the collection holds
MaxTodos == 2

\* the most calls of add_todo that return Ok in one behaviour
MaxAdds == 2

\* the clock of Spec starts at the first of ClockTicks
FirstTick == CHOOSE t \in ClockTicks : \A u \in ClockTicks : t <= u

\* a record as an earlier run saved it
StoredItem(id) ==
    ItemToJson(NewItem(id, Text(1, FALSE), None, FALSE, None, None, None, FirstTick))

\* the files a run can find: none, an empty one, and saved collections with
\* distinct ids
InitialFiles ==
    {NoFile,
     [kind |-> "blank", content |-> <<>>],
     [kind |-> "json", content |-> <<StoredItem(1)>>],
     [kind |-> "json", content |-> <<StoredItem(2), StoredItem(1)>>],
     [kind |-> "json", content |-> <<StoredItem(MaxId - 1)>>],
     [kind |-> "json", content |-> <<StoredItem(MaxId)>>]}

Init ==
    /\ file \in InitialFiles
    /\ alive = FALSE
    /\ todos = <<>>
    /\ next_id = 0
    /\ now = FirstTick
    /\ op = "init"
    /\ result = Ok
    /\ query = SortQuery("Due", FALSE, FALSE)
    /\ pre = <<>>
    /\ shown = <<>>
    /\ started = FirstTick
    /\ samples = <<>>
    /\ issued = <<>>
    /\ typed = NoTokens
    /\ saved = FALSE
    /\ given = None

\* a + 1 on u32 does not fit
Overflows(a) == a + 1 > MaxId

\* a + 1 on u32 that does not fit, in a build without overflow checks (the
\* release profile); a build with them (the debug profile) panics instead
WrappingInc(a) == (a + 1) % IdModulus

\* the builds: TRUE when integer overflow panics
Builds == BOOLEAN

\* the process dies of a panic: no manager is left, the file is as it was
Panic(name) ==
    /\ alive' = FALSE
    /\ todos' = <<>>
    /\ next_id' = 0
    /\ op' = name
    /\ result' = Err("panic")
    /\ pre' = todos
    /\ started' = now
    /\ query' = SortQuery("Due", FALSE, FALSE)
    /\ shown' = <<>>
    /\ samples' = <<>>
    /\ typed' = NoTokens
    /\ saved' = FALSE
    /\ UNCHANGED <<file, now, issued>>

\* an operation that is no list: no query, nothing displayed, no clock reading
NotListing ==
    /\ query' = SortQuery("Due", FALSE, FALSE)
    /\ shown' = <<>>
    /\ samples' = <<>>
    /\ typed' = NoTokens
    /\ UNCHANGED now

\* self.save(), which succeeds or fails as the file system decides; an
\* operation that saved returns Ok, one whose save failed the FileError
Save(items, save_ok) ==
    IF save_ok
    THEN file' = SavedFile(items) /\ result' = Ok /\ saved' = TRUE
    ELSE file' = file /\ result' = Err("FileError") /\ saved' = FALSE

\* TodoManager::new(file_path), at the start of a process: there is no
\* collection before it
New ==
    LET loaded == LoadTodos(file)
    IN  /\ given' = None
        /\ \E overflow_checks \in (IF Overflows(MaxOf(loaded)) THEN Builds ELSE {FALSE}) :
            IF Overflows(MaxOf(loaded)) /\ overflow_checks
            THEN Panic("new")
            ELSE /\ todos' = loaded
                 /\ next_id' = WrappingInc(MaxOf(loaded))
                 /\ alive' = TRUE
                 /\ op' = "new"
                 /\ result' = Ok
                 /\ pre' = <<>>
                 /\ started' = now
                 /\ saved' = FALSE
                 /\ UNCHANGED <<file, issued>>
                 /\ NotListing

\* A manager whose operation returned an error is not used again: the
\* process ends with the error, as main does, and the next run starts with
\* new().
Usable == alive /\ result.kind = "Ok"

\* an operation that returns the error `e` and changes nothing
Fails(name, e) ==
    /\ op' = name
    /\ result' = e
    /\ pre' = todos
    /\ started' = now
    /\ saved' = FALSE
    /\ UNCHANGED <<todos, next_id, file, alive, issued>>
    /\ NotListing

\* what add can be given: title, description, due date, priority, tags
AddInput(title, description, due_date, priority, tags) ==
    [title |-> title, description |-> description, due_date |-> due_date,
     priority |-> priority, tags |-> tags]

AddInputs ==
    {AddInput(Text(1, TRUE), None, None, None, None),
     AddInput(Text(MaxTitleLen, FALSE), Some(Text(MaxDescriptionLen, TRUE)),
              Some(DueDateTime(2 * MinutesPerDay + 9 * 60)), Some("HIGH"),
              Some(<<"work">>)),
     AddInput(Text(0, TRUE), None, None, None, None),
     AddInput(Text(MaxTitleLen + 1, FALSE), None, None, None, None),
     AddInput(Text(1, FALSE), Some(Text(MaxDescriptionLen + 1, FALSE)), None, None, None),
     AddInput(Text(1, FALSE), None, Some(DueGarbage), None, None),
     AddInput(Text(1, FALSE), None, Some(DueYesterday), None, None),
     AddInput(Text(1, FALSE), None, None, Some("h"), None)}

\* description.map(|d| validate_text(d, 1000)).transpose()
ValidateDescription(description) ==
    IF description = None
    THEN Good(None)
    ELSE LET v == ValidateText(Unwrap(description), MaxDescriptionLen)
         IN  IF v.ok THEN Good(Some(v.val)) ELSE v

\* TodoManager::add_todo
Add ==
    /\ Usable
    /\ Len(todos) < MaxTodos
    /\ Len(issued) < MaxAdds
    /\ given' = None
    /\ \E inp \in AddInputs :
        LET title == ValidateText(inp.title, MaxTitleLen)
            description == ValidateDescription(inp.description)
            parsed_due == ParseDueDate(inp.due_date, now)
            parsed_priority == ParsePriority(inp.priority)
            todo == NewItem(next_id, title.val, description.val, FALSE,
                            parsed_due.val, parsed_priority.val, inp.tags, now)
        IN  IF ~title.ok THEN Fails("add", Err(title.err))
            ELSE IF ~description.ok THEN Fails("add", Err(description.err))
            ELSE IF ~parsed_due.ok THEN Fails("add", Err(parsed_due.err))
            ELSE IF ~parsed_priority.ok THEN Fails("add", Err(parsed_priority.err))
            ELSE \E overflow_checks \in (IF Overflows(next_id) THEN Builds ELSE {FALSE}),
                    save_ok \in BOOLEAN :
                 IF Overflows(next_id) /\ overflow_checks THEN Panic("add")
                 ELSE /\ next_id' = WrappingInc(next_id)
                      /\ todos' = Append(todos, todo)
                      /\ issued' = IF save_ok THEN Append(issued, next_id) ELSE issued
                      /\ Save(Append(todos, todo), save_ok)
                      /\ op' = "add"
                      /\ pre' = todos
                      /\ started' = now
                      /\ UNCHANGED alive
                      /\ NotListing

\* the ids edit, toggle and delete can be given
TypedIds == {0, 1, 2, MaxId}

\* what edit can be given: each field is Some(..) when the option was typed
EditInput(title, description, due, priority, tags) ==
    [title |-> title, description |-> description, due |-> due,
     priority |-> priority, tags |-> tags]

EditInputs ==
    {EditInput(Some(Text(2, TRUE)), None, None, Some("medium"), None),
     EditInput(Some(Text(2, FALSE)), None, None, Some("urgent"), None),
     EditInput(Some(Text(0, TRUE)), None, None, Some("Low"), None)}

\* the outcome of a setter of edit_todo: the record and the error, "Ok" for none
Step(item, err) == [item |-> item, err |-> err]

\* edit_todo from `let todo = find_todo_mut(id)?` to the save: each field
\* typed is checked and set in turn, and the first error returns
EditFields(item, inp, t) ==
    LET s1 == IF inp.title = None
              THEN Step(item, "Ok")
              ELSE LET v == ValidateText(Unwrap(inp.title), MaxTitleLen)
                   IN  IF v.ok
                       THEN Step(Touch([item EXCEPT !.title = v.val], t), "Ok")
                       ELSE Step(item, v.err)
        s2 == IF s1.err # "Ok" \/ inp.description = None
              THEN s1
              ELSE LET v == ValidateText(Unwrap(inp.description), MaxDescriptionLen)
                   IN  IF v.ok
                       THEN Step(Touch([s1.item EXCEPT !.description = Some(v.val)], t), "Ok")
                       ELSE Step(s1.item, v.err)
        s3 == IF s2.err # "Ok" \/ inp.due = None
              THEN s2
              ELSE LET v == ParseDueDate(inp.due, t)
                   IN  IF v.ok
                       THEN Step(Touch([s2.item EXCEPT !.due_date = v.val], t), "Ok")
                       ELSE Step(s2.item, v.err)
        s4 == IF s3.err # "Ok" \/ inp.priority = None
              THEN s3
              ELSE LET v == ParsePriority(inp.priority)
                   IN  IF v.ok
                       THEN Step(Touch([s3.item EXCEPT !.priority = v.val], t), "Ok")
                       ELSE Step(s3.item, v.err)
    IN  IF s4.err # "Ok" \/ inp.tags = None
        THEN s4
        ELSE Step(Touch([s4.item EXCEPT !.tags = inp.tags], t), "Ok")

\* A slip in find_todo_mut: the id is looked up without validate_id.
FindError_unvalidated(s, id) ==
    IF FindTodo(s, id) = 0
    THEN [kind |-> "TodoNotFound", id |-> id]
    ELSE Ok

\* find_todo_mut(id): the error it returns, Ok for none
FindError(s, id) ==
    IF ~ValidateId(id).ok
    THEN Err("InvalidId")
    ELSE IF FindTodo(s, id) = 0
         THEN [kind |-> "TodoNotFound", id |-> id]
         ELSE Ok

\* TodoManager::edit_todo
Edit ==
    /\ Usable
    /\ \E id \in TypedIds :
        /\ given' = Some(id)
        /\ IF FindError(todos, id) # Ok
           THEN Fails("edit", FindError(todos, id))
           ELSE \E inp \in EditInputs :
                LET i == FindTodo(todos, id)
                    done == EditFields(todos[i], inp, now)
                IN  /\ todos' = [todos EXCEPT ![i] = done.item]
                    /\ IF done.err # "Ok"
                       THEN file' = file /\ result' = Err(done.err) /\ saved' = FALSE
                       ELSE \E save_ok \in BOOLEAN :
                               Save([todos EXCEPT ![i] = done.item], save_ok)
                    /\ op' = "edit"
                    /\ pre' = todos
                    /\ started' = now
                    /\ UNCHANGED <<next_id, alive, issued>>
                    /\ NotListing

\* A slip in toggle_todo: the record is marked completed whatever it was.
Toggled_complete(item, t) == Touch([item EXCEPT !.completed = TRUE], t)

\* toggle_todo: todo.set_completed(!todo.completed())
Toggled(item, t) == Touch([item EXCEPT !.completed = ~item.completed], t)

\* TodoManager::toggle_todo
Toggle ==
    /\ Usable
    /\ \E id \in TypedIds :
        /\ given' = Some(id)
        /\ IF FindError(todos, id) # Ok
           THEN Fails("toggle", FindError(todos, id))
           ELSE \E save_ok \in BOOLEAN :
                LET i == FindTodo(todos, id)
                    toggled == Toggled(todos[i], now)
                IN  /\ todos' = [todos EXCEPT ![i] = toggled]
                    /\ Save([todos EXCEPT ![i] = toggled], save_ok)
                    /\ op' = "toggle"
                    /\ pre' = todos
                    /\ started' = now
                    /\ UNCHANGED <<next_id, alive, issued>>
                    /\ NotListing

\* TodoManager::delete_todo
Delete ==
    /\ Usable
    /\ \E id \in TypedIds :
        /\ given' = Some(id)
        /\ IF Len(Retain(todos, id)) < Len(todos)
           THEN \E save_ok \in BOOLEAN :
                /\ todos' = Retain(todos, id)
                /\ Save(Retain(todos, id), save_ok)
                /\ op' = "delete"
                /\ pre' = todos
                /\ started' = now
                /\ UNCHANGED <<next_id, alive, issued>>
                /\ NotListing
           ELSE Fails("delete", [kind |-> "TodoNotFound", id |-> id])

\* TodoManager::clear_all, called by handle_commands, which returns Ok
\* whether the save failed or not
Clear ==
    /\ Usable
    /\ given' = None
    /\ \E save_ok \in BOOLEAN :
        /\ todos' = <<>>
        /\ file' = IF save_ok THEN SavedFile(<<>>) ELSE file
        /\ saved' = save_ok
        /\ result' = Ok
        /\ op' = "clear"
        /\ pre' = todos
        /\ started' = now
        /\ UNCHANGED <<next_id, alive, issued>>
        /\ NotListing

\* A slip in handle_list_command: the direction is taken from asc alone.
ListAscending_ascOnly(q) == q.asc

\* handle_list_command: let ascending = query.asc || !query.desc
ListAscending(q) == q.asc \/ ~q.desc

\* what list can be given
ListInput(sort_by, priority, asc, desc, only_pending, due_today) ==
    [sort_by |-> sort_by, priority |-> priority, asc |-> asc, desc |-> desc,
     only_complete |-> FALSE, only_pending |-> only_pending, overdue |-> FALSE,
     due_today |-> due_today, due_tomorrow |-> FALSE, due_within |-> None]

ListInputs ==
    {ListInput(None, None, FALSE, FALSE, FALSE, FALSE),
     ListInput(Some("priority"), None, FALSE, TRUE, FALSE, FALSE),
     ListInput(Some("due+priority"), None, TRUE, FALSE, TRUE, FALSE),
     ListInput(Some("DUE"), Some("HIGH"), FALSE, FALSE, FALSE, TRUE),
     ListInput(Some("bogus"), None, FALSE, FALSE, FALSE, FALSE),
     ListInput(None, Some("h"), FALSE, TRUE, FALSE, FALSE),
     ListInput(Some("due"), None, TRUE, TRUE, FALSE, FALSE)}

\* the tokens of a list command
Tokens(inp) == [sort_by |-> inp.sort_by, priority |-> inp.priority]

\* handle_commands, Commands::List, returning the error `e` of
\* SortBy::from_str or parse_priority: handle_list_command is not reached
Rejected(inp, e) ==
    /\ op' = "list"
    /\ result' = e
    /\ pre' = todos
    /\ started' = now
    /\ typed' = Tokens(inp)
    /\ saved' = FALSE
    /\ query' = SortQuery("Due", FALSE, FALSE)
    /\ shown' = <<>>
    /\ samples' = <<>>
    /\ UNCHANGED <<todos, next_id, file, alive, issued, now>>

\* handle_commands, Commands::List: the tokens are parsed, then
\* handle_list_command sorts the manager's collection in place, filters it
\* and hands the result to display_todos. Here the clock stands still while
\* the command runs; SpecFilter lets it run.
List ==
    /\ Usable
    /\ given' = None
    /\ \E inp \in ListInputs :
        LET sort_by == IF inp.sort_by = None
                       THEN Good("Due")
                       ELSE SortByFromStr(Unwrap(inp.sort_by))
            priority == ParsePriority(inp.priority)
            q == [inp EXCEPT !.sort_by = sort_by.val, !.priority = priority.val]
            ascending == ListAscending(q)
            sorted == ApplySorting(todos, q.sort_by, ascending)
        IN  IF ~sort_by.ok THEN Rejected(inp, Err(sort_by.err))
            ELSE IF ~priority.ok THEN Rejected(inp, Err(priority.err))
            ELSE \E r \in ClockReadings(Len(todos), q, now, {now}) :
                    /\ todos' = sorted
                    /\ shown' = ApplyFilter(sorted, q, r)
                    /\ samples' = r
                    /\ query' = q
                    /\ started' = now
                    /\ now' = IF todos = <<>> THEN now ELSE r[Len(todos)][4]
                    /\ pre' = todos
                    /\ op' = "list"
                    /\ result' = Ok
                    /\ typed' = Tokens(inp)
                    /\ saved' = FALSE
                    /\ UNCHANGED <<next_id, file, alive, issued>>

Next == New \/ Add \/ Edit \/ Toggle \/ Delete \/ Clear \/ List

Spec == Init /\ [][Next]_vars

----------------------------------------------------------------------------
(* SpecRun: one run of the program, as main has it: TodoManager::new on the
   file, then one command. The file is one that earlier runs saved, drawn
   from bounded sets. *)

\* the most records in the file a run starts with
MaxRunLen == 2

\* no due date; 09:00 of day 2
RunDues == {None, Some(2 * MinutesPerDay + 9 * 60)}

RunPriorities == {None, Some("Low"), Some("High")}

\* a saved collection of n records with ids in order; f gives each its due
\* date, its priority and whether it has a description and tags
RunFile(n, f) ==
    SavedFile([i \in 1..n |->
        NewItem(i, Title(1),
                IF f[i][3] THEN Some(Text(3, FALSE)) ELSE None,
                FALSE, f[i][1], f[i][2],
                IF f[i][3] THEN Some(<<"work">>) ELSE None,
                FirstTick)])

InitRun ==
    /\ \E n \in 0..MaxRunLen :
       \E f \in [1..n -> RunDues \X RunPriorities \X BOOLEAN] : file = RunFile(n, f)
    /\ alive = FALSE
    /\ todos = <<>>
    /\ next_id = 0
    /\ now = FirstTick
    /\ op = "init"
    /\ result = Ok
    /\ query = SortQuery("Due", FALSE, FALSE)
    /\ pre = <<>>
    /\ shown = <<>>
    /\ started = FirstTick
    /\ samples = <<>>
    /\ issued = <<>>
    /\ typed = NoTokens
    /\ saved = FALSE
    /\ given = None

\* main: let mut manager = TodoManager::new(cli.file)?
RunNew == op = "init" /\ New

\* main: the one command of the run
RunCommand == op = "new" /\ (Add \/ Edit \/ Toggle \/ Delete \/ Clear \/ List)

NextRun == RunNew \/ RunCommand

SpecRun == InitRun /\ [][NextRun]_vars

\* C3: an id that add_todo has assigned to a record (in a call that returned
\* Ok) is never assigned to a record added later, whatever deletes, clears
\* and new managers built from the saved file lie between.
C3_NeverReused ==
    \A i, j \in 1..Len(issued) : i < j => issued[i] # issued[j]

\* C4: while a manager exists the records of its collection have pairwise
\* distinct positive ids and next_id is greater than each of them; a manager
\* just built has next_id one more than the greatest id loaded (1 for no
\* record).
C4_DistinctPositiveIds ==
    alive =>
        /\ \A i, j \in 1..Len(todos) : i # j => todos[i].id # todos[j].id
        /\ \A i \in 1..Len(todos) : todos[i].id > 0 /\ next_id > todos[i].id
        /\ op = "new" => next_id = MaxOf(todos) + 1

\* C18: list sorts ascending when neither asc nor desc is set, and sorts
\* descending exactly when desc is set and asc is not.
C18_DirectionDefault ==
    (op = "list" /\ result = Ok) =>
        todos = ApplySorting(pre, query.sort_by, ~(query.desc /\ ~query.asc))

\* a list with neither asc nor desc set, of a collection whose ascending and
\* descending orders differ
C18_Witness ==
    /\ op = "list" /\ result = Ok
    /\ ~query.asc /\ ~query.desc
    /\ ApplySorting(pre, query.sort_by, TRUE) # ApplySorting(pre, query.sort_by, FALSE)
    /\ todos = ApplySorting(pre, query.sort_by, TRUE)

\* the sort keys and priorities as the claim spells them
SortTokens == {"due", "priority", "due+priority"}

PriorityTokens == {"high", "medium", "low"}

\* C19 as stated: a list command whose sort-key token is not one of due,
\* priority, due+priority, or whose priority token is not one of high,
\* medium, low, returns InvalidSortField or InvalidPriority, leaves the
\* order of the collection as it was and displays nothing.
C19_LiteralTokens ==
    (/\ op = "list"
     /\ \/ (typed.sort_by # None /\ Unwrap(typed.sort_by) \notin SortTokens)
        \/ (typed.priority # None /\ Unwrap(typed.priority) \notin PriorityTokens))
    => /\ result.kind \in {"InvalidSortField", "InvalidPriority"}
       /\ todos = pre
       /\ shown = <<>>

\* C19, amended: a list command whose sort-key token, in lower case, is not
\* one of due, priority, due+priority returns InvalidSortField; one whose
\* sort-key token is good and whose priority token, in lower case, is not
\* one of high, medium, low returns InvalidPriority; either way the order of
\* the collection and the file are as they were and nothing is displayed.
C19_UnrecognisedRejected ==
    [][(op' = "list" =>
          LET bad_sort == /\ typed'.sort_by # None
                          /\ ToLowercase(Unwrap(typed'.sort_by)) \notin SortTokens
              bad_priority == /\ typed'.priority # None
                              /\ ToLowercase(Unwrap(typed'.priority)) \notin PriorityTokens
          IN  /\ bad_sort => result'.kind = "InvalidSortField"
              /\ (~bad_sort /\ bad_priority) => result'.kind = "InvalidPriority"
              /\ (bad_sort \/ bad_priority) =>
                    /\ todos' = todos
                    /\ file' = file
                    /\ shown' = <<>>)]_vars

\* a list command with an unknown sort key, refused while the collection
\* holds records that the sort would have put in another order
C19_Witness ==
    /\ op = "list"
    /\ typed.sort_by = Some("bogus")
    /\ result.kind = "InvalidSortField"
    /\ todos = pre
    /\ \E k \in SortKeys, a \in BOOLEAN : ApplySorting(todos, k, a) # todos
    /\ shown = <<>>

\* record r has each of description, due_date, priority and tags
AllPresent(r) ==
    r.description # None /\ r.due_date # None /\ r.priority # None /\ r.tags # None

\* record r has none of description, due_date, priority and tags
AllAbsent(r) ==
    r.description = None /\ r.due_date = None /\ r.priority = None /\ r.tags = None

----------------------------------------------------------------------------
(* SpecToggle: a manager as test_toggle_todo uses it: built on the file,
   then add_todo and toggle_todo in any order and number; a manager whose
   operation failed is replaced by a new one on the file. *)

NextToggle == New \/ Add \/ Toggle

SpecToggle == Init /\ [][NextToggle]_vars

\* an operation named `name` returned an error in this step (a panic is no
\* return)
Returned(name) == op' = name /\ result'.kind \notin {"Ok", "panic"}

\* C21: whenever add_todo returns an error, the in-memory collection and
\* next_id are the same as before the call.
C21_AddErrorUnchanged ==
    [][Returned("add") => (todos' = todos /\ next_id' = next_id)]_vars

\* the ids of the records of s
Ids(s) == {s[i].id : i \in 1..Len(s)}

\* the error TodoNotFound { id }
NotFound(id) == [kind |-> "TodoNotFound", id |-> id]

\* this step is an edit, toggle or delete given an id that no record has
MissingId == op' \in {"edit", "toggle", "delete"} /\ Unwrap(given') \notin Ids(todos)

\* C22 as stated: for every id that is not the id of a record in the
\* collection, edit_todo, toggle_todo and delete_todo each return
\* TodoNotFound carrying that id and leave the collection unchanged.
C22_AlwaysNotFound ==
    [][MissingId => (result' = NotFound(Unwrap(given')) /\ todos' = todos)]_vars

\* C22 as amended: for an id that no record has, delete_todo returns
\* TodoNotFound carrying the id; edit_todo and toggle_todo return InvalidId
\* for the id 0 and TodoNotFound carrying the id for every other; all three
\* leave the collection, next_id and the file as they were.
C22_MissingId ==
    [][MissingId =>
        /\ result' = IF Unwrap(given') = 0 /\ op' # "delete"
                     THEN Err("InvalidId")
                     ELSE NotFound(Unwrap(given'))
        /\ todos' = todos /\ next_id' = next_id /\ file' = file]_vars

\* a toggle of a collection with records, given an id none of them has
C22_Witness ==
    /\ op = "toggle" /\ given = Some(MaxId)
    /\ todos # <<>> /\ MaxId \notin Ids(todos)
    /\ result = NotFound(MaxId)

\* this step is a toggle_todo that found its record (its save succeeded or
\* failed)
ToggleFound == op' = "toggle" /\ result'.kind \in {"Ok", "FileError"}

\* C23: toggle_todo on an existing id flips that record's completed flag and
\* no other record's; two consecutive successful toggles of the same id
\* bring the completed values back to what they were; a record created by
\* add_todo starts with completed = FALSE.
C23_Toggle ==
    [][/\ ToggleFound =>
            LET i == FindTodo(todos, Unwrap(given'))
            IN  /\ Len(todos') = Len(todos)
                /\ todos'[i].completed = ~todos[i].completed
                /\ \A j \in 1..Len(todos) : j # i => todos'[j] = todos[j]
       /\ (/\ op = "toggle" /\ result = Ok
           /\ op' = "toggle" /\ result' = Ok
           /\ given' = given) =>
            /\ Len(todos') = Len(pre)
            /\ \A j \in 1..Len(pre) : todos'[j].completed = pre[j].completed
       /\ (op' = "add" /\ result'.kind \in {"Ok", "FileError"}) =>
            /\ Len(todos') = Len(todos) + 1
            /\ todos'[Len(todos')].completed = FALSE]_vars

\* the second of two successive toggles of one record, in a collection of
\* two: the record was completed and is pending again, the other is as it was
C23_Witness ==
    /\ op = "toggle" /\ result = Ok /\ Len(todos) = 2
    /\ \E i, j \in 1..2 :
        /\ i # j
        /\ todos[i].id = Unwrap(given)
        /\ pre[i].completed /\ ~todos[i].completed
        /\ todos[j] = pre[j]

\* the number of records with id `id` among the first n of s
Removed(s, id, n) == Cardinality({k \in 1..n : s[k].id = id})

PriorityAbbreviations == {"high", "medium", "low", "h", "m", "l"}

\* C25: the priority parser accepts h, m and l as well as high, medium and
\* low, in any case, and rejects every other token with InvalidPriority:
\* a list command whose sort key was accepted is rejected for its priority
\* token exactly when the token is none of the six.
C25_Abbreviations ==
    (op = "list" /\ typed.priority # None /\ result.kind # "InvalidSortField")
    => IF ToLowercase(Unwrap(typed.priority)) \in PriorityAbbreviations
       THEN result = Ok
       ELSE result.kind = "InvalidPriority"

----------------------------------------------------------------------------
(* SpecOverdue: TodoItem::is_overdue called on each record of collections
   drawn from bounded sets, while the clock runs *)

\* the minutes a record may be late before it counts as overdue
OverdueGrace == 5

\* A slip in TodoItem::is_overdue: the five minutes are left out.
ItemIsOverdue_noGrace(item, t) ==
    IF IsSome(item.due_date)
    THEN Unwrap(item.due_date) < t /\ ~item.completed
    ELSE FALSE

\* TodoItem::is_overdue, with `t` the reading of Local::now()
ItemIsOverdue(item, t) ==
    IF IsSome(item.due_date)
    THEN Unwrap(item.due_date) + OverdueGrace < t /\ ~item.completed
    ELSE FALSE

\* the longest collection whose records are asked
MaxOverdueLen == 2

\* 12:00 and 12:01 of day 1: the readings Local::now() can give
OverdueTicks == {MinutesPerDay + 12 * 60, MinutesPerDay + 12 * 60 + 1}

\* no due date; 11:54, 11:55, 11:56 and 12:01 of day 1; 12:00 of day 2
OverdueDues ==
    {None} \cup
    {Some(MinutesPerDay + 12 * 60 + d) : d \in {-6, -5, -4, 1, MinutesPerDay}}

\* the readings of n calls in turn, on a clock at t that never runs backwards
CallReadings(n, t, ticks) ==
    {r \in [1..n -> {v \in ticks : v >= t}] :
        \A i, j \in 1..n : i < j => r[i] <= r[j]}

InitOverdue ==
    /\ \E n \in 0..MaxOverdueLen :
       \E f \in [1..n -> BOOLEAN \X OverdueDues \X {None}] : todos = FilterInput(n, f)
    /\ Idle
    /\ now \in OverdueTicks
    /\ op = "init"
    /\ result = Ok
    /\ query = SortQuery("Due", FALSE, FALSE)
    /\ pre = <<>>
    /\ shown = <<>>
    /\ started = 0
    /\ samples = <<>>

\* item.is_overdue() for each record in turn; shown keeps the records it is
\* true of and samples the reading of each call
OverdueStep ==
    /\ op = "init"
    /\ \E r \in CallReadings(Len(todos), now, OverdueTicks) :
        /\ shown' = SelectSeq(todos, LAMBDA item : ItemIsOverdue(item, r[item.id]))
        /\ samples' = [i \in 1..Len(todos) |-> <<r[i]>>]
        /\ started' = now
        /\ now' = IF todos = <<>> THEN now ELSE r[Len(todos)]
        /\ pre' = todos
        /\ op' = "is_overdue"
        /\ result' = Ok
        /\ UNCHANGED <<todos, next_id, file, alive, issued, query, typed, saved, given>>

NextOverdue == OverdueStep

SpecOverdue == InitOverdue /\ [][NextOverdue]_vars

\* C26: TodoItem::is_overdue is false for every completed record and for
\* every record without a due_date; for a pending record with a due_date it
\* is true exactly when due_date + 5 minutes is strictly earlier than now.
C26_ItemOverdue ==
    op = "is_overdue" =>
        \A i \in 1..Len(todos) :
            InSeq(shown, todos[i]) <=>
                /\ ~todos[i].completed
                /\ todos[i].due_date # None
                /\ Unwrap(todos[i].due_date) + 5 < samples[i][1]

\* a pending record whose due date is five minutes before the reading is
\* not overdue, one whose due date is six minutes before it is
C26_Witness ==
    /\ op = "is_overdue" /\ Len(todos) = 2
    /\ \E i, j \in 1..2 :
        /\ ~todos[i].completed /\ ~todos[j].completed
        /\ todos[i].due_date = Some(samples[i][1] - 5)
        /\ todos[j].due_date = Some(samples[j][1] - 6)
        /\ ~InSeq(shown, todos[i])
        /\ InSeq(shown, todos[j])

----------------------------------------------------------------------------
(* SpecTotal: handle_list_command's pipeline, apply_sorting then
   apply_filter, on collections and queries drawn from bounded sets, with
   due_within over the range of its type. chrono's date arithmetic panics
   outside the dates it can hold. *)

\* the width of due_within (i64), scaled
DaysBits == 5

\* i64::MIN and i64::MAX at that width
MinDays == -(2 ^ (DaysBits - 1))

MaxDays == 2 ^ (DaysBits - 1) - 1

\* the last day NaiveDate holds (NaiveDate::MAX), scaled: a week after the
\* days of ClockTicks
LastDay == 9

\* the first day NaiveDate holds (NaiveDate::MIN), scaled
FirstDay == 0 - 9

\* now.date() + chrono::Duration::days(days) has a value: Duration::days
\* panics for a count of days outside the range of Duration and the
\* addition panics for a sum outside the range of NaiveDate; the range of
\* Duration is the wider one, so the sum decides
DaysRepresentable(today, days) ==
    FirstDay <= today + days /\ today + days <= LastDay

\* is_due_within(item) panics: the closure runs for a record with a due
\* date, and `date >= now.date() && ..` evaluates the sum only when its first
\* operand is true
DueWithinPanics(q, item, t) ==
    /\ IsSome(q.due_within)
    /\ IsSome(item.due_date)
    /\ Date(Unwrap(item.due_date)) >= Date(t)
    /\ ~DaysRepresentable(Date(t), Unwrap(q.due_within))

\* item_passes_filters(item) panics: is_due_within is reached, through the
\* && of item_passes_filters and the || of passes_time_filter, and panics
ItemPanics(q, item, clk) ==
    /\ HasAnyFilters(q)
    /\ PassesStatusFilter(q, item)
    /\ PassesPriorityFilter(q, item)
    /\ ~IsOverdue(q, item, clk[1])
    /\ ~IsDueToday(q, item, clk[2])
    /\ ~IsDueTomorrow(q, item, clk[3])
    /\ DueWithinPanics(q, item, clk[4])

TotalQueries ==
    [sort_by : SortKeys, asc : {FALSE}, desc : BOOLEAN,
     only_complete : {FALSE}, only_pending : BOOLEAN,
     priority : {None},
     overdue : BOOLEAN, due_today : {FALSE}, due_tomorrow : {FALSE},
     due_within : {None} \cup {Some(d) : d \in {MinDays, -1, 0, 1, MaxDays}}]

\* handle_list_command(todos, query): the collection is sorted in place and
\* filtered; a panic in the filter ends the process after the sort
TotalStep ==
    /\ op = "init"
    /\ \E q \in TotalQueries :
       \E r \in ClockReadings(Len(todos), q, now, {t \in ClockTicks : t >= now}) :
        LET sorted == ApplySorting(todos, q.sort_by, ListAscending(q))
            panics == \E i \in 1..Len(sorted) : ItemPanics(q, sorted[i], r[i])
        IN  /\ todos' = sorted
            /\ shown' = IF panics THEN <<>> ELSE ApplyFilter(sorted, q, r)
            /\ result' = IF panics THEN Err("panic") ELSE Ok
            /\ samples' = r
            /\ query' = q
            /\ started' = now
            /\ now' = IF todos = <<>> THEN now ELSE r[Len(todos)][4]
            /\ pre' = todos
            /\ op' = "query"
            /\ UNCHANGED <<next_id, file, alive, issued, typed, saved, given>>

NextTotal == TotalStep

SpecTotal == InitFilter /\ [][NextTotal]_vars

\* C27: sorting and filtering are total: for every collection and every
\* query, with every value of due_within, negative, zero or as large as the
\* type holds, apply_sorting and item_passes_filters return a result.
C27_Total == op = "query" => result = Ok

\* C28: edit_todo is atomic on failure: whenever it returns an error (unknown
\* id, invalid title, description, due date or priority, or a failed save),
\* no field of any record in the in-memory collection differs from before
\* the call.
C28_EditAtomic ==
    [][Returned("edit") => todos' = todos]_vars

----------------------------------------------------------------------------
(* SpecPipeline: handle_list_command's pipeline on the collections of
   SpecSort, with queries that sort and filter, while the clock stands
   still *)

\* A slip in handle_list_command: the filter is given the collection as it
\* was before the sort.
Pipeline_unsorted(s, q, readings) == ApplyFilter(s, q, readings)

\* handle_list_command: apply_sorting(todos, query.sort_by, ascending), then
\* apply_filter(todos, &query)
Pipeline(s, q, readings) ==
    ApplyFilter(ApplySorting(s, q.sort_by, ListAscending(q)), q, readings)

\* the filters of the queries: priority High, due within a day, both
PipelineFilters ==
    {[priority |-> Some("High"), due_within |-> None],
     [priority |-> None, due_within |-> Some(1)],
     [priority |-> Some("High"), due_within |-> Some(1)]}

PipelineQueries ==
    {[SortQuery(k, FALSE, d) EXCEPT !.priority = f.priority,
                                    !.due_within = f.due_within] :
        k \in SortKeys, d \in BOOLEAN, f \in PipelineFilters}

\* handle_list_command(todos, query), once on each input collection
PipelineStep ==
    /\ op = "init"
    /\ \E q \in PipelineQueries :
       \E r \in ClockReadings(Len(todos), q, now, {now}) :
        /\ todos' = ApplySorting(todos, q.sort_by, ListAscending(q))
        /\ shown' = Pipeline(todos, q, r)
        /\ samples' = r
        /\ query' = q
        /\ started' = now
        /\ pre' = todos
        /\ op' = "pipeline"
        /\ result' = Ok
        /\ UNCHANGED <<next_id, file, alive, now, issued, typed, saved, given>>

NextPipeline == PipelineStep

SpecPipeline == InitSort /\ [][NextPipeline]_vars

\* the records of a are records of b, in the order they have in b
Subsequence(a, b) ==
    /\ \A i \in 1..Len(a) : InSeq(b, a[i])
    /\ \A i, j \in 1..Len(a) : i < j => Before(b, a[i], a[j])

\* C29: for a clock that stands still, sorting the collection and then
\* filtering it gives the sequence that filtering it and then sorting the
\* result gives, and the filtered output is a subsequence of the sorted
\* collection, in its order.
C29_Commute ==
    op = "pipeline" =>
        /\ shown = ApplySorting(ApplyFilter(pre, query, samples),
                                query.sort_by, ListAscending(query))
        /\ Subsequence(shown, todos)

\* a pipeline that moved records and dropped one from between two it kept
C29_Witness ==
    /\ op = "pipeline" /\ Len(todos) = 3 /\ Len(shown) = 2
    /\ todos # pre
    /\ shown = <<todos[1], todos[3]>>

\* the query asks for nothing but DueWithinDays(n)
OnlyDueWithin(q) ==
    /\ IsSome(q.due_within)
    /\ ~q.only_complete /\ ~q.only_pending /\ q.priority = None
    /\ ~q.overdue /\ ~q.due_today /\ ~q.due_tomorrow

\* what DueToday alone selects from s, its reading for each record being
\* the reading `readings` has for DueWithinDays
SelectedToday(s, q, readings) ==
    ApplyFilter(s, [q EXCEPT !.due_within = None, !.due_today = TRUE],
                [i \in 1..Len(s) |-> [p \in 1..4 |-> readings[i][4]]])

\* C30: DueWithinDays(0) selects exactly the records that DueToday selects,
\* and DueWithinDays(n) with n < 0 selects no record, for every collection
\* and every now.
C30_ZeroAndNegative ==
    (op = "query" /\ OnlyDueWithin(query)) =>
        /\ result = Ok
        /\ Unwrap(query.due_within) = 0 => shown = SelectedToday(todos, query, samples)
        /\ Unwrap(query.due_within) < 0 => shown = <<>>

====
